---- MODULE Spec2Model ----
(***************************************************************************)
(* Model of the agent execution loop of browser_use (agent/service.py,     *)
(* agent/views.py) and of the part of the browser it drives                *)
(* (browser/service.py).                                                   *)
(*                                                                         *)
(* Strings are sequences of tokens, so that the empty string, the          *)
(* concatenation of a prefix with a message and Python truthiness are      *)
(* what the code makes of them.  Optional[str] is a record with a `some'   *)
(* flag.                                                                   *)
(***************************************************************************)
EXTENDS Integers, Sequences, FiniteSets, TLC

VARIABLES
    pc,                     \* position of run(): "init", "loop", "finally", "returned", "raised"
    max_steps,              \* argument of run()
    step,                   \* loop variable of `for step in range(max_steps)'
    outcome,                \* the branch by which run() left its loop
    max_failures,           \* Agent.max_failures
    controller_injected,    \* Agent.controller_injected
    save_conversation_path, \* Agent.save_conversation_path is set
    messages,               \* Agent.messages
    history,                \* Agent.history
    n_steps,                \* Agent.n_steps
    consecutive_failures,   \* Agent.consecutive_failures
    telemetry,              \* events given to ProductTelemetry.capture, in order
    calls,                  \* calls made to the collaborators and the exceptions caught, in order
    driver,                 \* Browser.driver: "open" or "none"
    keep_open,              \* Browser.keep_open
    quits,                  \* number of driver.quit() calls
    slept,                  \* seconds spent in time.sleep
    llm,                    \* Agent.llm: the class of the client and its model name
    usage_metadata,         \* Agent.usage_metadata
    reported,               \* the token usage the model calls reported, in order
    logged,                 \* the total cost _log_usage_metadata logged last
    diagram,                \* what generate_mermaid_diagram returned last, as lines
    stop_requested,         \* whoever started run() has asked it to stop
    window_handles,         \* driver.window_handles, in the order the windows were opened
    window_pages,           \* the page each window shows: driver.current_url and driver.title
    current_window_handle,  \* driver.current_window_handle
    tab_cache,              \* Browser._tab_cache
    current_handle,         \* Browser._current_handle
    cached_state            \* Browser._cached_state: the snapshot get_state returned last

vars == <<pc, max_steps, step, outcome, max_failures, controller_injected,
          save_conversation_path, messages, history, n_steps,
          consecutive_failures, telemetry, calls, driver, keep_open, quits,
          slept, llm, usage_metadata, reported, logged, diagram, stop_requested,
          window_handles, window_pages, current_window_handle, tab_cache,
          current_handle, cached_state>>

usageVars == <<llm, usage_metadata, reported, logged>>

\* what the caller of run() holds
callerVars == <<diagram, stop_requested>>

\* the windows of the driver and what the browser remembers of them
tabVars == <<window_handles, window_pages, current_window_handle, tab_cache,
             current_handle, cached_state>>

(***************************************************************************)
(* Bounds                                                                  *)
(***************************************************************************)
MaxStepsBound == 3
MaxFailuresBound == 2
MaxCalls == 3
MaxTokens == 6
MaxCloses == 5
MaxRuns == 2
MaxTabs == 2

(***************************************************************************)
(* Configuration                                                           *)
(***************************************************************************)
\* Agent.retry_delay, the default of __init__
retry_delay == 10

(***************************************************************************)
(* Values                                                                  *)
(***************************************************************************)
NoneStr == [some |-> FALSE, val |-> <<>>]
Str(s) == [some |-> TRUE, val |-> s]
\* Python truthiness of an Optional[str]
Truthy(o) == o.some /\ o.val # <<>>

VALIDATION_ERROR == <<"Invalid model output format. Please follow the correct schema.">>

\* ActionResult(is_done=False, extracted_content=None, error=None)
ActionResult(is_done, extracted_content, error) ==
    [is_done |-> is_done, extracted_content |-> extracted_content, error |-> error]

\* AgentHistory.model_output: AgentOutput | None
NoOutput == [present |-> FALSE, action |-> "none"]
AgentOutput(a) == [present |-> TRUE, action |-> a]

AgentHistory(model_output, result, state) ==
    [model_output |-> model_output, result |-> result, state |-> state]

\* exceptions: the class (as far as the isinstance tests of the code tell
\* classes apart) and str(error)
Exc(kind, msg) == [kind |-> kind, msg |-> msg]

\* what the model client can raise inside the try block of step()
ModelErrors ==
    { Exc("ValidationError", <<"m">>), Exc("ValueError", <<"m">>),
      Exc("RateLimitError", <<"m">>), Exc("Exception", <<"m">>),
      Exc("Exception", <<>>) }

\* what Controller.act can raise
ActErrors == { Exc("Exception", <<"m">>), Exc("ValueError", <<>>) }

\* what Controller.act can return
ActResults ==
    { ActionResult(FALSE, NoneStr, NoneStr),
      ActionResult(FALSE, Str(<<"c">>), NoneStr),
      ActionResult(FALSE, NoneStr, Str(<<"e">>)),
      ActionResult(FALSE, Str(<<"c">>), Str(<<"e">>)),
      ActionResult(FALSE, Str(<<>>), Str(<<>>)),
      ActionResult(TRUE, NoneStr, NoneStr),
      ActionResult(TRUE, Str(<<"c">>), NoneStr),
      ActionResult(TRUE, NoneStr, Str(<<"e">>)) }

Actions == {"click"}

HumanMessage(content) == [cls |-> "HumanMessage", content |-> content]
AIMessage(content) == [cls |-> "AIMessage", content |-> content]
SystemMessage(content) == [cls |-> "SystemMessage", content |-> content]

(***************************************************************************)
(* agent/views.py                                                          *)
(***************************************************************************)
TokenDetails(audio, cache_read, reasoning) ==
    [audio |-> audio, cache_read |-> cache_read, reasoning |-> reasoning]

TokenUsage(input_tokens, output_tokens, total_tokens, input_token_details, output_token_details) ==
    [input_tokens |-> input_tokens, output_tokens |-> output_tokens,
     total_tokens |-> total_tokens,
     input_token_details |-> input_token_details,
     output_token_details |-> output_token_details]

\* the usage_metadata __init__ builds
ZeroUsage == TokenUsage(0, 0, 0, TokenDetails(0, 0, 0), TokenDetails(0, 0, 0))

\* the client run_task gives the agent
DefaultLLM == [cls |-> "ChatOpenAI", name |-> "gpt-4"]

\* clients an agent can be given: the two classes the code knows, with model
\* names in and out of the pricing catalog, and another chat model class
LLMs ==
    { [cls |-> "ChatOpenAI", name |-> "gpt-4o"],
      [cls |-> "ChatOpenAI", name |-> "gpt-4o-mini"],
      [cls |-> "ChatOpenAI", name |-> "gpt-4"],
      [cls |-> "ChatAnthropic", name |-> "claude-3-5-sonnet-20240620"],
      [cls |-> "ChatAnthropic", name |-> "claude-3-opus"],
      [cls |-> "BaseChatModel", name |-> "gpt-4o"] }

\* prices per 1M tokens, in thousandths of a dollar
Pricing(uncached_input, cached_input, output) ==
    [uncached_input |-> uncached_input, cached_input |-> cached_input, output |-> output]

ModelPricingCatalog ==
    [gpt_4o |-> Pricing(2500, 1250, 10000),
     gpt_4o_mini |-> Pricing(150, 75, 600),
     claude_3_5_sonnet |-> Pricing(3000, 1500, 15000)]

\* nothing logged yet
NoCost == -1

\* no diagram generated yet
NoDiagram == <<>>

\* response_metadata['token_usage'] / ['usage'] of a raw response: a dict
\* in which any field can be absent
OpenAIReports ==
    { [prompt_tokens |-> 2, completion_tokens |-> 1, total_tokens |-> 3,
       prompt_tokens_details |-> [cached_tokens |-> 1, audio_tokens |-> 0],
       completion_tokens_details |-> [reasoning_tokens |-> 1]],
      [prompt_tokens |-> 1] }

AnthropicReports ==
    { [input_tokens |-> 2, output_tokens |-> 1],
      [output_tokens |-> 1] }

Reports(l) == IF l.cls = "ChatAnthropic" THEN AnthropicReports ELSE OpenAIReports

\* dict.get(key, 0)
Get(dict, key) == IF key \in DOMAIN dict THEN dict[key] ELSE 0
\* dict.get(outer, {}).get(inner, 0)
GetIn(dict, outer, inner) == IF outer \in DOMAIN dict THEN Get(dict[outer], inner) ELSE 0

\* mutant: the message alone, without the prefix
format_error_noprefix(error) == error.msg

format_error(error) ==
    IF error.kind = "ValidationError"
    THEN VALIDATION_ERROR \o <<"\nDetails: ">> \o error.msg
    ELSE <<"Unexpected error: ">> \o error.msg

(***************************************************************************)
(* agent/service.py: helpers                                               *)
(***************************************************************************)
\* the snapshot get_state returns on the n-th observation of a run
Snapshot(n) == [observation |-> n]

\* mutant: a rate-limit failure is retried without being counted
handle_step_error_failures_ratelimit(error, failures) ==
    IF error.kind = "RateLimitError" THEN failures ELSE failures + 1

\* mutant: only the failures the handler tells apart by class are counted
handle_step_error_failures_classified(error, failures) ==
    IF error.kind \in {"ValidationError", "ValueError", "RateLimitError"}
    THEN failures + 1
    ELSE failures

\* _handle_step_error: the counter after the handler
handle_step_error_failures(error, failures) ==
    IF error.kind \in {"ValidationError", "ValueError"} THEN failures + 1
    ELSE IF error.kind = "RateLimitError" THEN failures + 1
    ELSE failures + 1

\* mutant: every failure that is not a validation failure pauses
handle_step_error_calls_pause(error) ==
    IF error.kind \in {"ValidationError", "ValueError"} THEN <<>> ELSE <<"sleep">>

\* _handle_step_error: the collaborator calls of the handler (time.sleep)
handle_step_error_calls(error) ==
    IF error.kind \in {"ValidationError", "ValueError"} THEN <<>>
    ELSE IF error.kind = "RateLimitError" THEN <<"sleep">>
    ELSE <<>>

\* _handle_step_error: the seconds the handler sleeps
handle_step_error_sleep(error, delay) ==
    IF error.kind \in {"ValidationError", "ValueError"} THEN 0
    ELSE IF error.kind = "RateLimitError" THEN delay
    ELSE 0

\* mutant: the result carries str(error) instead of the formatted text
handle_step_error_result_raw(error) ==
    [is_done |-> FALSE, extracted_content |-> NoneStr, error |-> [some |-> TRUE, val |-> error.msg]]

\* _handle_step_error: the result it returns
handle_step_error_result(error) ==
    ActionResult(FALSE, NoneStr, Str(format_error(error)))

\* mutant: the counter is reset only when the result carries no error
failures_after_act_iferror(result, failures) ==
    IF result.error.some /\ result.error.val # <<>> THEN failures ELSE 0

\* mutant: the reset is left out
failures_after_act_kept(result, failures) == failures

\* the reset of line 157 after a returned dispatch
failures_after_act(result, failures) == 0

\* mutant: the error is reported only when there is no extracted content
update_messages_with_result_either(msgs, result) ==
    IF result.extracted_content.some /\ result.extracted_content.val # <<>>
    THEN Append(msgs, [cls |-> "HumanMessage", content |-> result.extracted_content.val])
    ELSE IF result.error.some /\ result.error.val # <<>>
         THEN Append(msgs, [cls |-> "HumanMessage", content |-> result.error.val])
         ELSE msgs

update_messages_with_result(msgs, result) ==
    LET m1 == IF Truthy(result.extracted_content)
              THEN Append(msgs, HumanMessage(result.extracted_content.val))
              ELSE msgs
    IN  IF Truthy(result.error)
        THEN Append(m1, HumanMessage(result.error.val))
        ELSE m1

\* mutant: a step without a decision leaves no record
make_history_item_decided(hist, model_output, state, result) ==
    IF model_output.present
    THEN Append(hist, [model_output |-> model_output, result |-> result, state |-> state])
    ELSE hist

\* mutant: the new record is put in front
make_history_item_front(hist, model_output, state, result) ==
    <<[model_output |-> model_output, result |-> result, state |-> state]>> \o hist

make_history_item(hist, model_output, state, result) ==
    Append(hist, AgentHistory(model_output, result, state))

\* _update_message_history up to and including the first append
history_message(state) == HumanMessage(<<"state", ToString(state.observation)>>)
ai_message(parsed) == AIMessage(<<"output", parsed.action>>)

\* mutant: a ceiling of 0 is taken to mean no ceiling
too_many_failures_zero_unlimited(failures, ceiling) == ceiling > 0 /\ failures >= ceiling

\* mutant: the ceiling is compared with > instead of >=
too_many_failures_gt(failures, ceiling) == failures > ceiling

too_many_failures(failures, ceiling) == failures >= ceiling

\* mutant: a done result that carries an error does not complete the task
is_task_complete_noerror(hist) ==
    /\ Len(hist) > 0
    /\ hist[Len(hist)].result.is_done
    /\ ~hist[Len(hist)].result.error.some

\* mutant: the first record is looked at instead of the latest
is_task_complete_first(hist) == Len(hist) > 0 /\ hist[1].result.is_done

\* mutant: a done result whose error is non-empty does not complete the task
is_task_complete_unless_error(hist) ==
    /\ Len(hist) > 0
    /\ hist[Len(hist)].result.is_done
    /\ ~(hist[Len(hist)].result.error.some /\ hist[Len(hist)].result.error.val # <<>>)

is_task_complete(hist) == Len(hist) > 0 /\ hist[Len(hist)].result.is_done

\* mutant: the browser is closed whoever built the controller
closes_browser_always(injected) == TRUE

\* the finally clause closes the browser of a controller the agent built
closes_browser(injected) == ~injected

Count(seq, x) == Cardinality({i \in 1..Len(seq) : seq[i] = x})

\* mutant: the error is preferred to the extracted content
diagram_content_error_first(result) ==
    IF result.error.some /\ result.error.val # <<>> THEN result.error.val
    ELSE IF result.extracted_content.some /\ result.extracted_content.val # <<>>
         THEN result.extracted_content.val
         ELSE <<"No content">>

\* step.result.extracted_content or step.result.error or "No content"
diagram_content(result) ==
    IF Truthy(result.extracted_content) THEN result.extracted_content.val
    ELSE IF Truthy(result.error) THEN result.error.val
    ELSE <<"No content">>

\* the lines the loop of generate_mermaid_diagram adds for the first n
\* records, each line a sequence of tokens
RECURSIVE diagram_steps(_, _)
diagram_steps(hist, n) ==
    IF n = 0 THEN <<>>
    ELSE LET i == n - 1 IN
         diagram_steps(hist, n - 1)
             \o << <<"    step", ToString(i), "['">> \o diagram_content(hist[n].result)
                       \o <<"']\n">> >>
             \o (IF i > 0
                 THEN << <<"    step", ToString(i - 1), " --> step", ToString(i), "\n">> >>
                 ELSE <<>>)

generate_mermaid_diagram(hist) == << <<"graph TD\n">> >> \o diagram_steps(hist, Len(hist))

(***************************************************************************)
(* agent/service.py: usage and cost                                        *)
(***************************************************************************)
\* mutant: a model name that is not in the catalog is priced as gpt-4o
calc_token_cost_default(l, u) ==
    IF l.cls \notin {"ChatOpenAI", "ChatAnthropic"} THEN 0
    ELSE LET model_pricing ==
                 IF l.name = "gpt-4o-mini" THEN ModelPricingCatalog.gpt_4o_mini
                 ELSE IF l.name = "claude-3-5-sonnet-20240620"
                      THEN ModelPricingCatalog.claude_3_5_sonnet
                      ELSE ModelPricingCatalog.gpt_4o
         IN  (u.input_tokens - u.input_token_details.cache_read) * model_pricing.uncached_input
             + u.input_token_details.cache_read * model_pricing.cached_input
             + u.output_tokens * model_pricing.output

\* _calc_token_cost, in billionths of a dollar (the division by 1e6 and the
\* prices in thousandths kept exact)
calc_token_cost(l, u) ==
    IF l.cls \notin {"ChatOpenAI", "ChatAnthropic"} THEN 0
    ELSE IF l.name \notin {"gpt-4o", "gpt-4o-mini", "claude-3-5-sonnet-20240620"} THEN 0
    ELSE LET model_pricing ==
                 IF l.name = "gpt-4o" THEN ModelPricingCatalog.gpt_4o
                 ELSE IF l.name = "gpt-4o-mini" THEN ModelPricingCatalog.gpt_4o_mini
                 ELSE ModelPricingCatalog.claude_3_5_sonnet
             uncached_input_tokens == u.input_tokens - u.input_token_details.cache_read
         IN  uncached_input_tokens * model_pricing.uncached_input
             + u.input_token_details.cache_read * model_pricing.cached_input
             + u.output_tokens * model_pricing.output

AddDetails(d, e) ==
    TokenDetails(d.audio + e.audio, d.cache_read + e.cache_read, d.reasoning + e.reasoning)

\* _update_usage_metadata: the usage_metadata it leaves
update_usage_metadata(l, u, raw) ==
    IF l.cls = "ChatAnthropic"
    THEN LET usage == TokenUsage(Get(raw, "input_tokens"), Get(raw, "output_tokens"),
                                 Get(raw, "input_tokens") + Get(raw, "output_tokens"),
                                 TokenDetails(0, 0, 0), TokenDetails(0, 0, 0))
         IN  [u EXCEPT !.input_tokens = @ + usage.input_tokens,
                       !.output_tokens = @ + usage.output_tokens,
                       !.total_tokens = @ + usage.total_tokens]
    ELSE IF l.cls = "ChatOpenAI"
    THEN LET usage == TokenUsage(
                 Get(raw, "prompt_tokens"), Get(raw, "completion_tokens"),
                 Get(raw, "total_tokens"),
                 TokenDetails(GetIn(raw, "prompt_tokens_details", "audio_tokens"),
                              GetIn(raw, "prompt_tokens_details", "cached_tokens"), 0),
                 TokenDetails(GetIn(raw, "completion_tokens_details", "audio_tokens"), 0,
                              GetIn(raw, "completion_tokens_details", "reasoning_tokens")))
         IN  [u EXCEPT !.input_tokens = @ + usage.input_tokens,
                       !.output_tokens = @ + usage.output_tokens,
                       !.total_tokens = @ + usage.total_tokens,
                       !.input_token_details = AddDetails(@, usage.input_token_details),
                       !.output_token_details = AddDetails(@, usage.output_token_details)]
    ELSE u

\* get_next_action: what the model call does to usage_metadata (the call of
\* _update_usage_metadata at line 252 is a comment)
usage_after_model_call(l, u, raw) == u

(***************************************************************************)
(* browser/service.py and browser/views.py: tabs                           *)
(***************************************************************************)
\* self._current_handle = None
NoHandle == "None"

\* the page a new driver shows, and the pages a window can load
BlankPage == [url |-> "data:,", title |-> ""]
Pages == { [url |-> "https://a", title |-> "A"], [url |-> "https://b", title |-> "B"] }

\* the handle the driver gives the n-th window
Handle(n) == "window-" \o ToString(n)

TabInfo(handle, url, title) == [handle |-> handle, url |-> url, title |-> title]

BrowserState(url, title, current_tab_handle, tabs) ==
    [url |-> url, title |-> title, current_tab_handle |-> current_tab_handle, tabs |-> tabs]

\* the driver and the fields of the browser, as one record
BrowserRecord ==
    [window_handles |-> window_handles, window_pages |-> window_pages,
     current_window_handle |-> current_window_handle, tab_cache |-> tab_cache,
     current_handle |-> current_handle]

\* self._tab_cache[handle] = tab_info
CachePut(cache, handle, tab_info) ==
    [h \in DOMAIN cache \cup {handle} |-> IF h = handle THEN tab_info ELSE cache[h]]

\* the loop of get_tabs_info from the i-th handle on: b.current_window_handle
\* is the window the driver is at, current the handle read before the loop
RECURSIVE get_tabs_info_loop(_, _, _, _)
get_tabs_info_loop(b, current, i, tabs_info) ==
    IF i > Len(b.window_handles)
    THEN [b |-> b, tabs_info |-> tabs_info]
    ELSE LET handle == b.window_handles[i] IN
         IF handle \in DOMAIN b.tab_cache
         THEN get_tabs_info_loop(b, current, i + 1, Append(tabs_info, b.tab_cache[handle]))
         ELSE LET at == IF handle # current THEN handle ELSE b.current_window_handle
                  tab_info == TabInfo(handle, b.window_pages[at].url, b.window_pages[at].title)
              IN  get_tabs_info_loop(
                      [b EXCEPT !.current_window_handle = at,
                                !.tab_cache = CachePut(b.tab_cache, handle, tab_info)],
                      current, i + 1, Append(tabs_info, tab_info))

get_tabs_info(b) ==
    LET current == b.current_window_handle
        r == get_tabs_info_loop([b EXCEPT !.current_handle = current], current, 1, <<>>)
    IN  [b |-> [r.b EXCEPT !.current_window_handle = current], tabs_info |-> r.tabs_info]

\* _update_state: the keyword arguments of BrowserState are evaluated in
\* the order they are written, current_tab_handle before tabs
update_state(b) ==
    LET url == b.window_pages[b.current_window_handle].url
        title == b.window_pages[b.current_window_handle].title
        current_tab_handle == IF b.current_handle # NoHandle /\ b.current_handle # ""
                              THEN b.current_handle
                              ELSE b.current_window_handle
        r == get_tabs_info(b)
    IN  [b |-> r.b, state |-> BrowserState(url, title, current_tab_handle, r.tabs_info)]

\* mutant: the driver is switched to the new tab but the handle is not kept
handle_new_tab_unrecorded(b) ==
    LET new_handle == b.window_handles[Len(b.window_handles)]
        tab_info == [handle |-> new_handle, url |-> b.window_pages[new_handle].url,
                     title |-> b.window_pages[new_handle].title]
    IN  [b EXCEPT !.current_window_handle = new_handle,
                  !.tab_cache = [h \in DOMAIN b.tab_cache \cup {new_handle} |->
                                    IF h = new_handle THEN tab_info ELSE b.tab_cache[h]]]

handle_new_tab(b) ==
    LET new_handle == b.window_handles[Len(b.window_handles)]
        tab_info == TabInfo(new_handle, b.window_pages[new_handle].url,
                            b.window_pages[new_handle].title)
    IN  [b EXCEPT !.current_window_handle = new_handle,
                  !.current_handle = new_handle,
                  !.tab_cache = CachePut(b.tab_cache, new_handle, tab_info)]

\* Browser.__init__: a driver with one window, and the first _update_state
BrowserConstructed ==
    LET r == update_state([window_handles |-> <<Handle(1)>>,
                           window_pages |-> [h \in {Handle(1)} |-> BlankPage],
                           current_window_handle |-> Handle(1),
                           tab_cache |-> <<>>,
                           current_handle |-> NoHandle])
    IN  /\ window_handles = r.b.window_handles
        /\ window_pages = r.b.window_pages
        /\ current_window_handle = r.b.current_window_handle
        /\ tab_cache = r.b.tab_cache
        /\ current_handle = r.b.current_handle
        /\ cached_state = r.state

(***************************************************************************)
(* Agent.__init__                                                          *)
(***************************************************************************)
Init ==
    /\ pc = "init"
    /\ max_steps = 0
    /\ step = 0
    /\ outcome = "none"
    /\ max_failures \in 0..MaxFailuresBound
    /\ controller_injected \in BOOLEAN
    /\ save_conversation_path \in BOOLEAN
    /\ messages = << SystemMessage(<<"system">>), HumanMessage(<<"Your task is: ", "task">>) >>
    /\ history = <<>>
    /\ n_steps = 1
    /\ consecutive_failures = 0
    /\ telemetry = <<>>
    /\ calls = <<>>
    /\ driver = "open"
    /\ keep_open \in BOOLEAN
    /\ quits = 0
    /\ slept = 0
    /\ llm = DefaultLLM
    /\ usage_metadata = ZeroUsage
    /\ reported = <<>>
    /\ logged = NoCost
    /\ diagram = NoDiagram
    /\ stop_requested = FALSE
    /\ BrowserConstructed

(***************************************************************************)
(* Agent.run                                                               *)
(***************************************************************************)
RunStart ==
    /\ pc = "init"
    /\ \E ms \in 0..MaxStepsBound : max_steps' = ms
    /\ step' = 0
    /\ telemetry' = Append(telemetry, [type |-> "run"])
    /\ pc' = "loop"
    /\ UNCHANGED <<outcome, max_failures, controller_injected, save_conversation_path,
                   messages, history, n_steps, consecutive_failures, calls,
                   driver, keep_open, quits>>
    /\ UNCHANGED <<slept, usageVars, callerVars, tabVars>>

\* range(max_steps) is exhausted: the else clause of the for loop
LoopExhausted ==
    /\ pc = "loop"
    /\ step >= max_steps
    /\ outcome' = "Exhausted"
    /\ pc' = "finally"
    /\ UNCHANGED <<max_steps, step, max_failures, controller_injected,
                   save_conversation_path, messages, history, n_steps,
                   consecutive_failures, telemetry, calls, driver, keep_open, quits>>
    /\ UNCHANGED <<slept, usageVars, callerVars, tabVars>>

\* mutant: the ceiling is tested before the loop looks at its budget
LoopTooManyFailures_first ==
    /\ pc = "loop"
    /\ consecutive_failures >= max_failures
    /\ outcome' = "TooManyFailures"
    /\ pc' = "finally"
    /\ UNCHANGED <<max_steps, step, max_failures, controller_injected,
                   save_conversation_path, messages, history, n_steps,
                   consecutive_failures, telemetry, calls, driver, keep_open, quits>>
    /\ UNCHANGED <<slept, usageVars, callerVars, tabVars>>

\* if self._too_many_failures(): break
LoopTooManyFailures ==
    /\ pc = "loop"
    /\ step < max_steps
    /\ too_many_failures(consecutive_failures, max_failures)
    /\ outcome' = "TooManyFailures"
    /\ pc' = "finally"
    /\ UNCHANGED <<max_steps, step, max_failures, controller_injected,
                   save_conversation_path, messages, history, n_steps,
                   consecutive_failures, telemetry, calls, driver, keep_open, quits>>
    /\ UNCHANGED <<slept, usageVars, callerVars, tabVars>>

\* mutant: range(max_steps + 1)
StepEnabled_one_more ==
    /\ pc = "loop"
    /\ step <= max_steps
    /\ consecutive_failures < max_failures

StepEnabled ==
    /\ pc = "loop"
    /\ step < max_steps
    /\ ~too_many_failures(consecutive_failures, max_failures)

\* the end of step() and the rest of the loop body: the result goes to the
\* messages and the history, then `if self._is_task_complete(): break'
Commit(msgs, model_output, state, result) ==
    /\ messages' = update_messages_with_result(msgs, result)
    /\ history' = make_history_item(history, model_output, state, result)
    /\ IF is_task_complete(history')
       THEN /\ outcome' = "Succeeded"
            /\ pc' = "finally"
            /\ step' = step
       ELSE /\ outcome' = outcome
            /\ pc' = "loop"
            /\ step' = step + 1

\* the except branch of step(): _handle_step_error and the telemetry event
Except(error, msgs, state, callsSoFar) ==
    LET result == handle_step_error_result(error) IN
    /\ consecutive_failures' = handle_step_error_failures(error, consecutive_failures)
    /\ calls' = callsSoFar \o <<error.kind>> \o handle_step_error_calls(error)
    /\ slept' = slept + handle_step_error_sleep(error, retry_delay)
    /\ telemetry' = IF Truthy(result.error)
                    THEN Append(telemetry, [type |-> "step_error", error |-> result.error.val])
                    ELSE telemetry
    /\ Commit(msgs, NoOutput, state, result)

\* get_state raises: line 150 is outside the try block, the exception leaves
\* step() and run()
StepObserveRaises ==
    /\ StepEnabled
    /\ calls' = Append(calls, "get_state")
    /\ outcome' = "Raised"
    /\ pc' = "finally"
    /\ UNCHANGED <<max_steps, step, max_failures, controller_injected,
                   save_conversation_path, messages, history, n_steps,
                   consecutive_failures, telemetry, driver, keep_open, quits>>
    /\ UNCHANGED <<slept, usageVars, callerVars, tabVars>>

\* the awaited model call is cancelled or interrupted: a BaseException that
\* `except Exception' does not catch
StepInterrupted ==
    /\ StepEnabled
    /\ calls' = calls \o <<"get_state", "ainvoke">>
    /\ outcome' = "Raised"
    /\ pc' = "finally"
    /\ UNCHANGED <<max_steps, step, max_failures, controller_injected,
                   save_conversation_path, messages, history, n_steps,
                   consecutive_failures, telemetry, driver, keep_open, quits>>
    /\ UNCHANGED <<slept, usageVars, callerVars, tabVars>>

\* the model call raises
StepModelRaises ==
    /\ StepEnabled
    /\ \E error \in ModelErrors :
         Except(error, messages, Snapshot(Count(calls, "get_state") + 1),
                calls \o <<"get_state", "ainvoke">>)
    /\ UNCHANGED <<max_steps, max_failures, controller_injected,
                   save_conversation_path, n_steps, driver, keep_open, quits>>
    /\ UNCHANGED <<usageVars, callerVars, tabVars>>

\* the model's output could not be parsed: with include_raw the client
\* returns parsed = None; _update_message_history appends the observation
\* message and then fails on None.model_dump_json
StepParsedNone ==
    /\ StepEnabled
    /\ LET state == Snapshot(Count(calls, "get_state") + 1) IN
         Except(Exc("Exception", <<"'NoneType' object has no attribute 'model_dump_json'">>),
                Append(messages, history_message(state)), state,
                calls \o <<"get_state", "ainvoke">>)
    /\ UNCHANGED <<max_steps, max_failures, controller_injected,
                   save_conversation_path, n_steps, driver, keep_open, quits>>
    /\ UNCHANGED <<usageVars, callerVars, tabVars>>

\* get_next_action up to _update_message_history
Decided(msgs, state, parsed) ==
    Append(Append(msgs, history_message(state)), ai_message(parsed))

\* _save_conversation raises (the file cannot be written)
StepSaveRaises ==
    /\ StepEnabled
    /\ save_conversation_path
    /\ \E a \in Actions :
         LET state == Snapshot(Count(calls, "get_state") + 1) IN
         Except(Exc("Exception", <<"cannot write">>),
                Decided(messages, state, AgentOutput(a)), state,
                calls \o <<"get_state", "ainvoke", "save">>)
    /\ n_steps' = n_steps + 1
    /\ UNCHANGED <<max_steps, max_failures, controller_injected,
                   save_conversation_path, driver, keep_open, quits>>
    /\ UNCHANGED <<usageVars, callerVars, tabVars>>

SaveCalls == IF save_conversation_path THEN <<"save">> ELSE <<>>

\* controller.act raises
StepActRaises ==
    /\ StepEnabled
    /\ \E a \in Actions, error \in ActErrors :
         LET state == Snapshot(Count(calls, "get_state") + 1) IN
         Except(error, Decided(messages, state, AgentOutput(a)), state,
                calls \o <<"get_state", "ainvoke">> \o SaveCalls \o <<"act">>)
    /\ n_steps' = n_steps + 1
    /\ UNCHANGED <<max_steps, max_failures, controller_injected,
                   save_conversation_path, driver, keep_open, quits>>
    /\ UNCHANGED <<usageVars, callerVars, tabVars>>

\* the try block runs to its end
StepActs ==
    /\ StepEnabled
    /\ \E a \in Actions, result \in ActResults :
         LET state == Snapshot(Count(calls, "get_state") + 1) IN
         /\ consecutive_failures' = failures_after_act(result, consecutive_failures)
         /\ Commit(Decided(messages, state, AgentOutput(a)), AgentOutput(a), state, result)
    /\ calls' = calls \o <<"get_state", "ainvoke">> \o SaveCalls \o <<"act">>
    /\ n_steps' = n_steps + 1
    /\ UNCHANGED <<max_steps, max_failures, controller_injected,
                   save_conversation_path, telemetry, driver, keep_open, quits>>
    /\ UNCHANGED <<slept, usageVars, callerVars, tabVars>>

(***************************************************************************)
(* browser/service.py: Browser.close                                       *)
(***************************************************************************)
\* b = [driver, keep_open, quits].  With keep_open and no force the call
\* waits for Enter, clears keep_open and calls itself again.
RECURSIVE close(_, _)
close(b, force) ==
    IF ~b.keep_open \/ force
    THEN IF b.driver = "open"
         THEN [b EXCEPT !.driver = "none", !.quits = b.quits + 1]
         ELSE b
    ELSE close([b EXCEPT !.keep_open = FALSE], FALSE)

\* mutant: the end event is captured after the loop instead of in the
\* finally clause
Finally_after_loop ==
    /\ pc = "finally"
    /\ telemetry' = IF outcome = "Raised" THEN telemetry
                    ELSE Append(telemetry,
                                [type |-> "end", success |-> is_task_complete(history),
                                 steps |-> Len(history)])
    /\ IF closes_browser(controller_injected)
       THEN LET b == close([driver |-> driver, keep_open |-> keep_open, quits |-> quits], FALSE) IN
            /\ calls' = Append(calls, "close")
            /\ driver' = b.driver
            /\ keep_open' = b.keep_open
            /\ quits' = b.quits
       ELSE UNCHANGED <<calls, keep_open, quits, driver>>
    /\ pc' = IF outcome = "Raised" THEN "raised" ELSE "returned"
    /\ UNCHANGED <<max_steps, step, outcome, max_failures, controller_injected,
                   save_conversation_path, messages, history, n_steps,
                   consecutive_failures>>
    /\ UNCHANGED <<slept, usageVars, callerVars, tabVars>>

\* the finally clause of run()
Finally ==
    /\ pc = "finally"
    /\ telemetry' = Append(telemetry,
                           [type |-> "end", success |-> is_task_complete(history),
                            steps |-> Len(history)])
    /\ IF closes_browser(controller_injected)
       THEN LET b == close([driver |-> driver, keep_open |-> keep_open, quits |-> quits], FALSE) IN
            /\ calls' = Append(calls, "close")
            /\ driver' = b.driver
            /\ keep_open' = b.keep_open
            /\ quits' = b.quits
       ELSE UNCHANGED <<calls, keep_open, quits, driver>>
    /\ pc' = IF outcome = "Raised" THEN "raised" ELSE "returned"
    /\ UNCHANGED <<max_steps, step, outcome, max_failures, controller_injected,
                   save_conversation_path, messages, history, n_steps,
                   consecutive_failures>>
    /\ UNCHANGED <<slept, usageVars, callerVars, tabVars>>

Next ==
    \/ RunStart
    \/ LoopExhausted
    \/ LoopTooManyFailures
    \/ StepObserveRaises
    \/ StepInterrupted
    \/ StepModelRaises
    \/ StepParsedNone
    \/ StepSaveRaises
    \/ StepActRaises
    \/ StepActs
    \/ Finally

Spec == Init /\ [][Next]_vars

\* run() is one thread of control that goes on as long as it has a next
\* statement and every call it makes returns or raises
FairSpec == Spec /\ WF_vars(Next)

(***************************************************************************)
(* api.py: run_task builds an agent without a controller, runs it and      *)
(* generates the diagram of its history                                    *)
(***************************************************************************)
RunTaskInit ==
    /\ Init
    /\ max_failures = MaxFailuresBound
    /\ controller_injected = FALSE
    /\ keep_open = FALSE

\* agent.generate_mermaid_diagram(), after agent.run() has returned
GenerateMermaidDiagram ==
    /\ pc = "returned"
    /\ diagram' = generate_mermaid_diagram(history)
    /\ UNCHANGED <<pc, max_steps, step, outcome, max_failures, controller_injected,
                   save_conversation_path, messages, history, n_steps,
                   consecutive_failures, telemetry, calls, driver, keep_open, quits,
                   slept, usageVars, stop_requested, tabVars>>

RunTaskNext ==
    \/ Next
    \/ GenerateMermaidDiagram

RunTaskSpec == RunTaskInit /\ [][RunTaskNext]_vars

(***************************************************************************)
(* run() called again on the same agent, with the controller the caller    *)
(* supplied: history, messages, n_steps and consecutive_failures are those *)
(* the run before left                                                     *)
(***************************************************************************)
RerunInit ==
    /\ Init
    /\ controller_injected = TRUE
    /\ keep_open = FALSE

IsRun(event) == event.type = "run"

\* the next call of run(max_steps), after the call before has returned or
\* raised
RunAgain ==
    /\ pc \in {"returned", "raised"}
    /\ Len(SelectSeq(telemetry, IsRun)) < MaxRuns
    /\ \E ms \in 0..(MaxStepsBound - Count(calls, "get_state")) : max_steps' = ms
    /\ step' = 0
    /\ outcome' = "none"
    /\ telemetry' = Append(telemetry, [type |-> "run"])
    /\ pc' = "loop"
    /\ UNCHANGED <<max_failures, controller_injected, save_conversation_path,
                   messages, history, n_steps, consecutive_failures, calls,
                   driver, keep_open, quits>>
    /\ UNCHANGED <<slept, usageVars, callerVars, tabVars>>

RerunNext ==
    \/ Next
    \/ RunAgain

RerunSpec == RerunInit /\ [][RerunNext]_vars

(***************************************************************************)
(* A stop request from outside: run() takes max_steps alone and its loop   *)
(* tests _too_many_failures and _is_task_complete alone, so nothing reads  *)
(* the request                                                             *)
(***************************************************************************)
\* whoever started run() asks it to stop while it is in its loop
RequestStop ==
    /\ pc = "loop"
    /\ ~stop_requested
    /\ stop_requested' = TRUE
    /\ UNCHANGED <<pc, max_steps, step, outcome, max_failures, controller_injected,
                   save_conversation_path, messages, history, n_steps,
                   consecutive_failures, telemetry, calls, driver, keep_open, quits,
                   slept, usageVars, diagram, tabVars>>

StopNext ==
    \/ Next
    \/ RequestStop

StopSpec == Init /\ [][StopNext]_vars

(***************************************************************************)
(* The browser of a controller the caller built: the caller closes it, any *)
(* number of times, and drops it                                           *)
(***************************************************************************)
BrowserInit ==
    /\ Init
    /\ max_failures = MaxFailuresBound
    /\ controller_injected = TRUE
    /\ save_conversation_path = FALSE

\* browser.close(force)
BrowserClose ==
    /\ pc = "init"
    /\ Len(calls) < MaxCloses
    /\ Count(calls, "__del__") = 0
    /\ \E force \in BOOLEAN :
         LET b == close([driver |-> driver, keep_open |-> keep_open, quits |-> quits], force) IN
         /\ calls' = Append(calls, IF force THEN "close(force=True)" ELSE "close")
         /\ driver' = b.driver
         /\ keep_open' = b.keep_open
         /\ quits' = b.quits
    /\ UNCHANGED <<pc, max_steps, step, outcome, max_failures, controller_injected,
                   save_conversation_path, messages, history, n_steps,
                   consecutive_failures, telemetry, slept, usageVars, callerVars, tabVars>>

\* Browser.__del__: the instance is destroyed
BrowserDel ==
    /\ pc = "init"
    /\ Count(calls, "__del__") = 0
    /\ LET b == IF driver # "none"
                THEN close([driver |-> driver, keep_open |-> keep_open, quits |-> quits], FALSE)
                ELSE [driver |-> driver, keep_open |-> keep_open, quits |-> quits] IN
         /\ calls' = Append(calls, "__del__")
         /\ driver' = b.driver
         /\ keep_open' = b.keep_open
         /\ quits' = b.quits
    /\ UNCHANGED <<pc, max_steps, step, outcome, max_failures, controller_injected,
                   save_conversation_path, messages, history, n_steps,
                   consecutive_failures, telemetry, slept, usageVars, callerVars, tabVars>>

BrowserNext ==
    \/ BrowserClose
    \/ BrowserDel

BrowserSpec == BrowserInit /\ [][BrowserNext]_vars

(***************************************************************************)
(* The tabs of a browser: clicks that load a page or open a window,        *)
(* handle_new_tab and get_state, in any order                              *)
(***************************************************************************)
TabInit ==
    /\ Init
    /\ max_failures = MaxFailuresBound
    /\ controller_injected = TRUE
    /\ save_conversation_path = FALSE
    /\ keep_open = FALSE

TabFrame ==
    UNCHANGED <<pc, max_steps, step, outcome, max_failures, controller_injected,
                save_conversation_path, messages, history, n_steps,
                consecutive_failures, telemetry, calls, driver, keep_open, quits,
                slept, usageVars, callerVars>>

\* _click_element_by_xpath on a link: the window the driver is at loads a page
ClickNavigates ==
    /\ pc = "init"
    /\ \E page \in Pages :
         window_pages' = [window_pages EXCEPT ![current_window_handle] = page]
    /\ UNCHANGED <<window_handles, current_window_handle, tab_cache, current_handle,
                   cached_state>>
    /\ TabFrame

\* _click_element_by_xpath on a link that opens a window: the driver stays
\* at the window it was at
ClickOpensTab ==
    /\ pc = "init"
    /\ Len(window_handles) < MaxTabs
    /\ \E page \in Pages :
         LET new_handle == Handle(Len(window_handles) + 1) IN
         /\ window_handles' = Append(window_handles, new_handle)
         /\ window_pages' = [h \in DOMAIN window_pages \cup {new_handle} |->
                                IF h = new_handle THEN page ELSE window_pages[h]]
    /\ UNCHANGED <<current_window_handle, tab_cache, current_handle, cached_state>>
    /\ TabFrame

\* browser.handle_new_tab()
HandleNewTab ==
    /\ pc = "init"
    /\ LET b == handle_new_tab(BrowserRecord) IN
         /\ current_window_handle' = b.current_window_handle
         /\ current_handle' = b.current_handle
         /\ tab_cache' = b.tab_cache
    /\ UNCHANGED <<window_handles, window_pages, cached_state>>
    /\ TabFrame

\* browser.get_state()
GetState ==
    /\ pc = "init"
    /\ LET r == update_state(BrowserRecord) IN
         /\ current_window_handle' = r.b.current_window_handle
         /\ current_handle' = r.b.current_handle
         /\ tab_cache' = r.b.tab_cache
         /\ cached_state' = r.state
    /\ UNCHANGED <<window_handles, window_pages>>
    /\ TabFrame

TabNext ==
    \/ ClickNavigates
    \/ ClickOpensTab
    \/ HandleNewTab
    \/ GetState

TabSpec == TabInit /\ [][TabNext]_vars

(***************************************************************************)
(* Model calls outside run(): get_next_action called on a constructed      *)
(* agent, for any of the clients                                           *)
(***************************************************************************)
Constructed(clients) ==
    /\ pc = "init"
    /\ max_steps = 0
    /\ step = 0
    /\ outcome = "none"
    /\ max_failures = MaxFailuresBound
    /\ controller_injected = TRUE
    /\ save_conversation_path \in BOOLEAN
    /\ messages = << SystemMessage(<<"system">>), HumanMessage(<<"Your task is: ", "task">>) >>
    /\ history = <<>>
    /\ n_steps = 1
    /\ consecutive_failures = 0
    /\ telemetry = <<>>
    /\ calls = <<>>
    /\ driver = "open"
    /\ keep_open = FALSE
    /\ quits = 0
    /\ slept = 0
    /\ llm \in clients
    /\ usage_metadata = ZeroUsage
    /\ reported = <<>>
    /\ logged = NoCost
    /\ diagram = NoDiagram
    /\ stop_requested = FALSE
    /\ BrowserConstructed

UsageInit == Constructed(LLMs)

\* get_next_action returns: the model call reported the usage `raw'
GetNextAction ==
    /\ pc = "init"
    /\ Len(reported) < MaxCalls
    /\ \E a \in Actions, raw \in Reports(llm) :
         /\ messages' = Decided(messages, Snapshot(Len(reported) + 1), AgentOutput(a))
         /\ reported' = Append(reported, raw)
         /\ usage_metadata' = usage_after_model_call(llm, usage_metadata, raw)
    /\ n_steps' = n_steps + 1
    /\ calls' = calls \o <<"ainvoke">> \o SaveCalls
    /\ UNCHANGED <<pc, max_steps, step, outcome, max_failures, controller_injected,
                   save_conversation_path, history, consecutive_failures, telemetry,
                   driver, keep_open, quits, slept, llm, logged>>
    /\ UNCHANGED <<callerVars, tabVars>>

UsageNext == GetNextAction

UsageSpec == UsageInit /\ [][UsageNext]_vars

(***************************************************************************)
(* _update_usage_metadata and _log_usage_metadata called on a constructed  *)
(* agent                                                                   *)
(***************************************************************************)
CostInit == Constructed(LLMs)

\* _update_usage_metadata(raw_response), with the _log_usage_metadata call
\* at its end; a client of another class returns before it
UpdateUsageMetadata ==
    /\ pc = "init"
    /\ usage_metadata.input_tokens + usage_metadata.output_tokens < MaxTokens
    /\ \E raw \in Reports(llm) :
         usage_metadata' = update_usage_metadata(llm, usage_metadata, raw)
    /\ logged' = IF llm.cls \in {"ChatAnthropic", "ChatOpenAI"}
                 THEN calc_token_cost(llm, usage_metadata')
                 ELSE logged
    /\ UNCHANGED <<pc, max_steps, step, outcome, max_failures, controller_injected,
                   save_conversation_path, messages, history, n_steps,
                   consecutive_failures, telemetry, calls, driver, keep_open, quits,
                   slept, llm, reported>>
    /\ UNCHANGED <<callerVars, tabVars>>

\* _log_usage_metadata()
LogUsageMetadata ==
    /\ pc = "init"
    /\ logged' = calc_token_cost(llm, usage_metadata)
    /\ UNCHANGED <<pc, max_steps, step, outcome, max_failures, controller_injected,
                   save_conversation_path, messages, history, n_steps,
                   consecutive_failures, telemetry, calls, driver, keep_open, quits,
                   slept, llm, usage_metadata, reported>>
    /\ UNCHANGED <<callerVars, tabVars>>

CostNext ==
    \/ UpdateUsageMetadata
    \/ LogUsageMetadata

CostSpec == CostInit /\ [][CostNext]_vars

(***************************************************************************)
(* Properties                                                              *)
(***************************************************************************)
Min(a, b) == IF a < b THEN a ELSE b
Last(seq) == seq[Len(seq)]
StepsExecuted == Count(calls, "get_state")
Ended == pc \in {"returned", "raised"}
LatestIsDone == Len(history) > 0 /\ Last(history).result.is_done
NonEmpty(o) == o.some /\ Len(o.val) > 0
\* a step has just been recorded in the history
Recorded == Len(history') = Len(history) + 1
AllFailed == \A i \in 1..Len(history) : ~history[i].model_output.present

\* the step at which the loop of run() stopped, counted from 1: the step
\* whose result was done, the steps made before the ceiling was seen, or
\* the whole budget
TerminationStep ==
    CASE outcome = "Succeeded" -> step + 1
      [] outcome = "TooManyFailures" -> step
      [] OTHER -> max_steps

\* C1: when run(max_steps) returns, the length of the history equals the
\* number of steps executed, and that number is min(max_steps, the step at
\* which the run terminated).
C1_HistoryLength ==
    pc = "returned" =>
        /\ Len(history) = StepsExecuted
        /\ StepsExecuted = Min(max_steps, TerminationStep)

C1_Witness ==
    /\ pc = "returned"
    /\ max_steps = 3
    /\ Len(history) = 2
    /\ outcome = "TooManyFailures"
    /\ ~history[2].model_output.present

\* C2: once the failure counter has reached the ceiling, no further
\* observation, model call or dispatch is made and no record is added: the
\* run only goes on to its end.
C2_NoStepAfterCeiling ==
    [][consecutive_failures >= max_failures =>
          /\ Count(calls', "get_state") = Count(calls, "get_state")
          /\ Count(calls', "ainvoke") = Count(calls, "ainvoke")
          /\ Count(calls', "act") = Count(calls, "act")
          /\ history' = history
          /\ pc' \in {"loop", "finally", "returned", "raised"}
          /\ pc = "loop" => pc' = "finally"]_vars

C2_Witness ==
    /\ pc = "returned"
    /\ max_failures = 2
    /\ consecutive_failures = 2
    /\ step < max_steps
    /\ StepsExecuted = 2

\* C3: a run ends with the outcome Succeeded exactly when the result of the
\* latest history record has is_done set.
C3_SucceededIffDone ==
    (pc = "finally" \/ Ended) => (outcome = "Succeeded" <=> LatestIsDone)

C3_Witness ==
    /\ pc = "returned"
    /\ outcome = "Succeeded"
    /\ Len(history) = 2
    /\ NonEmpty(Last(history).result.error)

\* C4: every step whose decision was obtained and dispatched to a returned
\* result leaves the failure counter at 0, whatever it was before and
\* whether or not the result carries an error.
C4_ResetOnDispatch ==
    [][(Recorded /\ Last(history').model_output.present)
          => consecutive_failures' = 0]_vars

C4_Witness ==
    /\ Len(history) = 2
    /\ ~history[1].model_output.present
    /\ history[2].model_output.present
    /\ NonEmpty(history[2].result.error)
    /\ consecutive_failures = 0

\* C5: every failed step adds exactly 1 to the failure counter, whatever
\* the kind of the failure, and the first step that succeeds afterwards
\* sets it back to 0.
C5_CounterPerStep ==
    [][Recorded =>
          IF Last(history').model_output.present
          THEN consecutive_failures' = 0
          ELSE consecutive_failures' = consecutive_failures + 1]_vars

C5_Witness ==
    /\ Len(history) = 3
    /\ history[1].model_output.present
    /\ ~history[2].model_output.present
    /\ ~history[3].model_output.present
    /\ consecutive_failures = 2
    /\ Count(calls, "sleep") = 1
    /\ \E i \in 2..3 : history[i].result.error.val[1] = VALIDATION_ERROR[1]

\* the step that has just been taken made an observation and nothing else:
\* get_state failed
ObserveFailed == calls' = Append(calls, "get_state")

\* C6: a failure of the observation is recovered inside the step: run()
\* does not raise, the failure counter grows by one and one record with an
\* error result is appended.
C6_ObserveFailureRecovered ==
    [][ObserveFailed =>
          /\ outcome' # "Raised"
          /\ consecutive_failures' = consecutive_failures + 1
          /\ Recorded
          /\ NonEmpty(Last(history').result.error)]_vars

\* C7: when the failure counter reaches the ceiling on the last step that
\* max_steps allows, the run ends as a failure-ceiling stop, not as an
\* exhausted budget.
C7_CeilingBeforeBudget ==
    (/\ pc = "returned"
     /\ max_failures >= 1
     /\ consecutive_failures >= max_failures
     /\ StepsExecuted = max_steps)
        => outcome = "TooManyFailures"

\* C8: on every exit path of run() the browser is closed exactly once when
\* the agent built its own controller, and never when the controller was
\* supplied; nothing is closed before the run ends.
C8_ClosedOnce ==
    /\ Ended =>
         /\ Count(calls, "close") = (IF controller_injected THEN 0 ELSE 1)
         /\ quits = (IF controller_injected THEN 0 ELSE 1)
         /\ driver = (IF controller_injected THEN "open" ELSE "none")
    /\ ~Ended => (Count(calls, "close") = 0 /\ quits = 0 /\ driver = "open")

C8_Witness ==
    /\ pc = "raised"
    /\ ~controller_injected
    /\ Len(history) = 1
    /\ quits = 1

\* C9: with a ceiling c >= 1 and max_steps >= c, a run in which every step
\* fails stops after exactly c steps, not Succeeded, with c records that
\* all carry a non-empty error.
C9_AllStepsFail ==
    (/\ pc = "returned"
     /\ max_failures >= 1
     /\ max_steps >= max_failures
     /\ AllFailed)
        => /\ StepsExecuted = max_failures
           /\ Len(history) = max_failures
           /\ outcome # "Succeeded"
           /\ \A i \in 1..Len(history) : NonEmpty(history[i].result.error)

C9_Witness ==
    /\ pc = "returned"
    /\ max_failures = 2
    /\ max_steps = 3
    /\ AllFailed
    /\ Len(history) = 2
    /\ history[2].result.error.val = <<"Unexpected error: ">>

\* C10: the first step whose result is done is the last step of the run:
\* if it is step k, the run stops after exactly k steps as Succeeded, and
\* no record follows a record whose result is done.
C10_StopsAtFirstDone ==
    /\ \A i \in 1..Len(history) : history[i].result.is_done => i = Len(history)
    /\ LatestIsDone =>
         /\ pc \in {"finally", "returned"}
         /\ outcome = "Succeeded"
         /\ StepsExecuted = Len(history)
         /\ Len(history) = step + 1

C10_Witness ==
    /\ pc = "returned"
    /\ max_steps = 3
    /\ Len(history) = 2
    /\ history[2].result.is_done
    /\ history[1].model_output.present

IsError(token) == token \in {"ValidationError", "ValueError", "RateLimitError", "Exception"}

\* C11: a step pauses for retry_delay exactly when it fails with a
\* rate-limit error: the pause follows the rate-limit error at once, no
\* other failure is followed by a pause, and what comes after a pause is
\* the next observation (or the end of the run), never the rest of a step.
C11_PauseOnRateLimit ==
    /\ \A i \in 1..Len(calls) :
         /\ calls[i] = "RateLimitError" => (i < Len(calls) /\ calls[i + 1] = "sleep")
         /\ calls[i] = "sleep" => (i > 1 /\ calls[i - 1] = "RateLimitError")
         /\ (IsError(calls[i]) /\ calls[i] # "RateLimitError")
               => (i = Len(calls) \/ calls[i + 1] # "sleep")
         /\ (calls[i] = "sleep" /\ i < Len(calls)) => calls[i + 1] \in {"get_state", "close"}
    /\ slept = retry_delay * Count(calls, "RateLimitError")

C11_Witness ==
    /\ Len(history) = 2
    /\ ~history[1].model_output.present
    /\ history[2].model_output.present
    /\ calls[3] = "RateLimitError"
    /\ calls[4] = "sleep"
    /\ calls[5] = "get_state"
    /\ slept = retry_delay
    /\ consecutive_failures = 0

\* C12: run(0) executes no step: no observation, model call or dispatch,
\* an empty history, and the run ends by its exhausted budget, never as
\* Succeeded and never by the ceiling.
C12_RunZero ==
    (pc # "init" /\ max_steps = 0) =>
        /\ history = <<>>
        /\ Count(calls, "get_state") = 0
        /\ Count(calls, "ainvoke") = 0
        /\ Count(calls, "act") = 0
        /\ pc # "raised"
        /\ pc \in {"finally", "returned"} => outcome = "Exhausted"
        /\ pc = "returned" => ~Last(telemetry).success

C12_Witness ==
    /\ pc = "returned"
    /\ max_steps = 0
    /\ max_failures = 0
    /\ outcome = "Exhausted"
    /\ Last(telemetry).steps = 0

\* C13: run(max_steps) always comes to its end, it executes at most
\* max_steps steps, and when it ends by the ceiling or by the exhausted
\* budget it returns (with the history) instead of raising.
C13_Terminates ==
    /\ <>Ended
    /\ [](StepsExecuted <= max_steps)
    /\ []((Ended /\ outcome \in {"TooManyFailures", "Exhausted"})
            => (pc = "returned" /\ Len(history) = StepsExecuted))

C13_Witness ==
    /\ pc = "returned"
    /\ outcome = "Exhausted"
    /\ max_steps = 3
    /\ Len(history) = 3
    /\ consecutive_failures = 1

\* a step has run to its end in this transition (it made a model call and
\* did not raise out of run())
StepCompleted ==
    /\ Count(calls', "ainvoke") = Count(calls, "ainvoke") + 1
    /\ outcome' # "Raised"
IsPrefix(a, b) == Len(a) <= Len(b) /\ SubSeq(b, 1, Len(a)) = a
Bit(b) == IF b THEN 1 ELSE 0

Added == Len(messages') - Len(messages)

C16_ErrorNeverSucceeds ==
    (/\ pc \in {"finally", "returned", "raised"}
     /\ Len(history) > 0
     /\ NonEmpty(Last(history).result.error)
     /\ Last(history).result.is_done)
        => outcome # "Succeeded"

\* C16 amended: an error makes a step failed only when it comes from an
\* exception caught in the step; such a record has no decision and
\* is_done = false, so it never yields Succeeded.  A returned result with
\* both an error and is_done = true belongs to a successful step (the
\* counter is 0) and yields Succeeded.
C16_ErrorAndDone ==
    /\ \A i \in 1..Len(history) :
         ~history[i].model_output.present
             => (NonEmpty(history[i].result.error) /\ ~history[i].result.is_done)
    /\ (/\ Len(history) > 0
        /\ NonEmpty(Last(history).result.error)
        /\ Last(history).result.is_done)
           => /\ Last(history).model_output.present
              /\ consecutive_failures = 0
              /\ outcome = "Succeeded"

C16_Witness ==
    /\ pc = "returned"
    /\ Len(history) = 2
    /\ ~history[1].model_output.present
    /\ history[2].result.is_done
    /\ NonEmpty(history[2].result.error)
    /\ outcome = "Succeeded"

\* the token counts one raw response reports, absent fields counting as 0
InTokens(raw) == Get(raw, "prompt_tokens") + Get(raw, "input_tokens")
OutTokens(raw) == Get(raw, "completion_tokens") + Get(raw, "output_tokens")
CachedTokens(raw) == GetIn(raw, "prompt_tokens_details", "cached_tokens")
ReasoningTokens(raw) == GetIn(raw, "completion_tokens_details", "reasoning_tokens")

\* C17: after each successful model call every counter of usage_metadata
\* has grown by exactly what the call reported, and no counter ever
\* decreases.
C17_UsageAccumulates ==
    [][/\ Len(reported') = Len(reported) + 1 =>
            LET raw == Last(reported') IN
            /\ usage_metadata'.input_tokens = usage_metadata.input_tokens + InTokens(raw)
            /\ usage_metadata'.output_tokens = usage_metadata.output_tokens + OutTokens(raw)
            /\ usage_metadata'.input_token_details.cache_read
                  = usage_metadata.input_token_details.cache_read + CachedTokens(raw)
            /\ usage_metadata'.output_token_details.reasoning
                  = usage_metadata.output_token_details.reasoning + ReasoningTokens(raw)
       /\ usage_metadata'.input_tokens >= usage_metadata.input_tokens
       /\ usage_metadata'.output_tokens >= usage_metadata.output_tokens
       /\ usage_metadata'.total_tokens >= usage_metadata.total_tokens]_vars

\* the usage of one step alone
StepUsage(raw) ==
    TokenUsage(InTokens(raw), OutTokens(raw), InTokens(raw) + OutTokens(raw),
               TokenDetails(0, CachedTokens(raw), 0),
               TokenDetails(0, 0, ReasoningTokens(raw)))

RECURSIVE SumOfStepCosts(_)
SumOfStepCosts(n) ==
    IF n = 0 THEN 0
    ELSE SumOfStepCosts(n - 1) + calc_token_cost(llm, StepUsage(reported[n]))

\* C18: the cost computed from usage_metadata after N model calls equals
\* the sum of the costs computed from the token counts of each call alone.
C18_CostAdditive ==
    calc_token_cost(llm, usage_metadata) = SumOfStepCosts(Len(reported))

InCatalog(l) ==
    /\ l.cls \in {"ChatOpenAI", "ChatAnthropic"}
    /\ l.name \in {"gpt-4o", "gpt-4o-mini", "claude-3-5-sonnet-20240620"}

\* C19: the cost computation never fails: it always yields a cost that is
\* not negative, and for a client whose class or model name is not in the
\* pricing catalog the cost is 0 whatever usage has been accumulated.
C19_UnknownModelCostsNothing ==
    /\ logged # NoCost => logged >= 0
    /\ ~InCatalog(llm) => logged \in {NoCost, 0}

C19_Witness ==
    /\ llm = [cls |-> "ChatOpenAI", name |-> "gpt-4"]
    /\ usage_metadata.input_tokens >= 3
    /\ usage_metadata.output_tokens >= 1
    /\ logged = 0

\* C20: saving the conversation has no effect on the loop: a step that has
\* obtained its decision dispatches it, whether or not the conversation is
\* saved and whether or not the file could be written.
C20_PersistenceNoEffect ==
    [][(StepCompleted /\ n_steps' = n_steps + 1)
          => Count(calls', "act") = Count(calls, "act") + 1]_vars

IsNode(line) == Len(line) >= 3 /\ line[3] = "['"
IsEdge(line) == Len(line) >= 3 /\ line[3] = " --> step"
\* the summary of a record: its extracted content, else its error, else
\* 'No content'
Summary(r) ==
    IF NonEmpty(r.result.extracted_content) THEN r.result.extracted_content.val
    ELSE IF NonEmpty(r.result.error) THEN r.result.error.val
    ELSE <<"No content">>

\* C21: the diagram generated for a history of n records starts with the
\* header line and has, besides it, exactly n node lines step0..step(n-1)
\* in history order, node i holding the summary of record i, and exactly
\* the n-1 edge lines step(i-1) --> step(i), each node defined before the
\* edge that leads to it.
C21_DiagramOfHistory ==
    diagram # NoDiagram =>
        LET n == Len(history)
            nodes == SelectSeq(diagram, IsNode)
            edges == SelectSeq(diagram, IsEdge)
        IN  /\ diagram[1] = <<"graph TD\n">>
            /\ Len(diagram) = 1 + Len(nodes) + Len(edges)
            /\ Len(nodes) = n
            /\ \A i \in 1..n :
                  nodes[i] = <<"    step", ToString(i - 1), "['">> \o Summary(history[i])
                                \o <<"']\n">>
            /\ Len(edges) = (IF n = 0 THEN 0 ELSE n - 1)
            /\ \A i \in 1..Len(edges) :
                  /\ edges[i] = <<"    step", ToString(i - 1), " --> step", ToString(i), "\n">>
                  /\ diagram[2 * i + 1] = nodes[i + 1]
                  /\ diagram[2 * i + 2] = edges[i]

C21_Witness ==
    /\ pc = "returned"
    /\ Len(history) = 3
    /\ Len(diagram) = 6
    /\ NonEmpty(history[1].result.extracted_content)
    /\ NonEmpty(history[1].result.error)
    /\ history[2].model_output.present
    /\ ~NonEmpty(history[2].result.extracted_content)
    /\ ~NonEmpty(history[2].result.error)
    /\ ~history[3].model_output.present

\* C22: once a stop has been requested no further step is started: the
\* steps made so far stay committed and the run goes to its end without
\* another observation, model call or dispatch.
C22_StopBetweenSteps ==
    [][stop_requested =>
          /\ Count(calls', "get_state") = Count(calls, "get_state")
          /\ Count(calls', "ainvoke") = Count(calls, "ainvoke")
          /\ Count(calls', "act") = Count(calls, "act")
          /\ IsPrefix(history, history')
          /\ pc = "loop" => pc' = "finally"]_vars

IsEnd(event) == event.type = "end"

\* C23: on every exit path of run(), returning or raising, exactly one end
\* event has been captured, as the last event; its success flag is is_done
\* of the latest record (false when the history is empty) and its step
\* count is the length of the history.  No end event is captured before
\* the run ends.
C23_OneEndReport ==
    /\ ~Ended => Len(SelectSeq(telemetry, IsEnd)) = 0
    /\ Ended =>
         /\ Len(SelectSeq(telemetry, IsEnd)) = 1
         /\ Last(telemetry) = [type |-> "end", success |-> LatestIsDone,
                               steps |-> Len(history)]

C23_Witness ==
    /\ pc = "raised"
    /\ Len(history) = 2
    /\ Last(telemetry).type = "end"
    /\ Last(telemetry).steps = 2
    /\ ~Last(telemetry).success

\* C24: close() is idempotent: every call of close(), with or without
\* force and whatever keep_open was, leaves the browser without a driver
\* and the driver quit exactly once, and a call on a browser that has no
\* driver is a no-op: it changes nothing of the browser.
C24_CloseIdempotent ==
    [][/\ driver' = "none"
       /\ quits' = 1
       /\ driver = "none" =>
             (driver' = driver /\ quits' = quits /\ keep_open' = keep_open)]_vars

\* the step taken made its model call and failed before it had a decision:
\* the exception was caught right after the model call
FailedBeforeDecision ==
    /\ StepCompleted
    /\ \E k \in (Len(calls) + 1)..(Len(calls') - 1) :
          calls'[k] = "ainvoke" /\ IsError(calls'[k + 1])

\* C25: a step in which no decision is obtained (the model call raises or
\* its output is not a decision) appends the recovery message and nothing
\* else: the observation message rendered for the step is not added.
C25_NoObservationWithoutDecision ==
    [][FailedBeforeDecision =>
          messages' = Append(messages,
                             [cls |-> "HumanMessage",
                              content |-> Last(history').result.error.val])]_vars

\* the step taken dispatched its decision and the dispatch raised
DispatchRaised ==
    \E k \in (Len(calls) + 1)..(Len(calls') - 1) :
        calls'[k] = "act" /\ IsError(calls'[k + 1])

\* C26: when the decision was obtained and its dispatch raises, the step is
\* a failed step: the failure counter grows by one instead of being reset,
\* and the record of the step has no decision, is not done and carries a
\* non-empty error.
C26_DispatchRaisingFails ==
    [][DispatchRaised =>
          /\ consecutive_failures' = consecutive_failures + 1
          /\ Recorded
          /\ ~Last(history').model_output.present
          /\ NonEmpty(Last(history').result.error)
          /\ ~Last(history').result.is_done
          /\ n_steps' = n_steps + 1]_vars

C26_Witness ==
    /\ Len(history) = 2
    /\ ~history[1].model_output.present
    /\ ~history[2].model_output.present
    /\ consecutive_failures = 2
    /\ Count(calls, "act") = 1
    /\ Len(calls) = 7
    /\ calls[6] = "act"
    /\ calls[7] = "Exception"

IsFailedRecord(r) == ~r.model_output.present
\* the three failure kinds by the class of the exception
IsKind(token) == token \in {"ValidationError", "RateLimitError", "Exception"}

\* C28: each of the three failure kinds has a prefix of its own: the error
\* strings of two failures of different kinds start differently; and the
\* error string of a failed record is the content of a message of the
\* conversation.
C28_KindSpecificPrefix ==
    LET errs == SelectSeq(calls, IsError)
        failed == SelectSeq(history, IsFailedRecord)
    IN  /\ Len(errs) = Len(failed)
        /\ \A i \in 1..Len(failed) :
              /\ NonEmpty(failed[i].result.error)
              /\ \E k \in 1..Len(messages) :
                    messages[k] = [cls |-> "HumanMessage",
                                   content |-> failed[i].result.error.val]
        /\ \A i, j \in 1..Len(failed) :
              (IsKind(errs[i]) /\ IsKind(errs[j]) /\ errs[i] # errs[j])
                  => failed[i].result.error.val[1] # failed[j].result.error.val[1]

\* C29: n_steps advances by one with every step executed, successful or
\* failed: when the k-th step begins, n_steps is k.
C29_StepNumber ==
    pc = "loop" => n_steps = Len(history) + 1

Decided_records == {i \in 1..Len(history) : history[i].model_output.present}
\* the number of records without a decision at the end of the history
TrailingFailed ==
    IF Decided_records = {} THEN Len(history)
    ELSE Len(history) - (CHOOSE i \in Decided_records : \A j \in Decided_records : j <= i)

\* C30: the failure counter is the number of consecutive records without a
\* decision at the end of the history: 0 when the history is empty or its
\* latest record has a decision.
C30_CounterIsTrailingFailures ==
    consecutive_failures = TrailingFailed

C30_Witness ==
    /\ Len(history) = 3
    /\ ~history[1].model_output.present
    /\ history[2].model_output.present
    /\ NonEmpty(history[2].result.error)
    /\ ~history[3].model_output.present
    /\ consecutive_failures = 1

\* C31: in every state reached through run(), the first call and the
\* calls that follow it on the same agent, the failure counter is at least
\* 0 and at most the ceiling.
C31_CounterWithinCeiling ==
    /\ 0 <= consecutive_failures
    /\ consecutive_failures <= max_failures

C31_Witness ==
    /\ Len(SelectSeq(telemetry, IsRun)) = 2
    /\ pc = "returned"
    /\ outcome = "TooManyFailures"
    /\ max_failures = 2
    /\ consecutive_failures = 2
    /\ Len(history) = 2
    /\ \E i \in 1..Len(telemetry) :
          telemetry[i] = [type |-> "end", success |-> FALSE, steps |-> 1]

IsDecisionMessage(m) == m.cls = "AIMessage"

\* C32: the number of decision messages in the conversation equals the
\* number of history records that have a decision.
C32_DecisionsAgree ==
    Len(SelectSeq(messages, IsDecisionMessage)) = Cardinality(Decided_records)

\* C33: in the snapshot get_state returns, the tabs list has one entry per
\* open window, in the order of the windows, and the entry of the tab the
\* driver is at has the url and the title of the snapshot.
C33_TabsNeverStale ==
    [][GetState =>
          LET snapshot == cached_state' IN
          /\ Len(snapshot.tabs) = Len(window_handles')
          /\ \A i \in 1..Len(snapshot.tabs) :
               /\ snapshot.tabs[i].handle = window_handles'[i]
               /\ window_handles'[i] = current_window_handle'
                     => /\ snapshot.tabs[i].url = snapshot.url
                        /\ snapshot.tabs[i].title = snapshot.title]_vars

\* C34: in the snapshot get_state returns, current_tab_handle is the handle
\* of the window the driver is at when the snapshot is made, whatever
\* windows were opened and whatever tab the browser switched to since the
\* snapshot before: the handle the browser keeps is at all times the
\* handle of the driver's window, and get_state leaves the driver at the
\* window it was at.
C34_CurrentTabHandle ==
    /\ [](current_handle = current_window_handle)
    /\ [][GetState =>
             /\ cached_state'.current_tab_handle = current_window_handle'
             /\ current_window_handle' = current_window_handle
             /\ cached_state'.url = window_pages[current_window_handle].url]_vars

C34_Witness ==
    /\ Len(window_handles) = 2
    /\ current_window_handle = "window-2"
    /\ cached_state.current_tab_handle = "window-2"
    /\ Len(cached_state.tabs) = 2
    /\ cached_state.url = "https://b"
    /\ window_pages["window-1"].url = "https://a"

====
